---------------------------- MODULE Spec2Model ----------------------------
(***************************************************************************)
(* Model of the gender-bias detection and correction engine                *)
(* (src/src/analytics/bias_correction.py): BiasAnalyzer and BiasCorrector. *)
(*                                                                         *)
(* Numbers.  A Python float is modelled by an exact value <<n, d>>:        *)
(*   d > 0 : the rational n/d in lowest terms,                             *)
(*   <<0,0>> : NaN,  <<1,0>> : +inf,  <<-1,0>> : -inf.                     *)
(* Arithmetic is exact; binary rounding error of IEEE doubles is not       *)
(* modelled.  Division by zero follows numpy (x/0 = +-inf, 0/0 = NaN), and *)
(* every comparison with NaN is false, as in Python.                       *)
(***************************************************************************)
EXTENDS Integers, Sequences, FiniteSets, TLC

VARIABLES
    pc,                 \* "call" before the operation ran, "done" after
    op,                 \* which operation the caller invokes
    scores,             \* aplicar_reponderacao: {pessoa_id: score}
    generos,            \* aplicar_reponderacao: {pessoa_id: Genero}
    aplicar_correcao,   \* aplicar_reponderacao: flag
    scores_por_genero,  \* analisar_vies_genero / calcular_pesos_ajuste input
    valores,            \* calcular_estatisticas input
    threshold_vies,     \* BiasAnalyzer.threshold_vies
    alpha,              \* BiasAnalyzer.alpha
    resultado_reponderacao, \* gerar_relatorio_reponderacao input
    ids,                \* aplicar_reponderacao: the dict object each name is bound to
    args,               \* ranking.py: the arguments of the call, by name
    resultado           \* the value returned (<<>> before the call)

vars == <<pc, op, scores, generos, aplicar_correcao, scores_por_genero,
          valores, threshold_vies, alpha, resultado_reponderacao, ids, args, resultado>>

(***************************************************************************)
(* Bounds of the model.                                                    *)
(***************************************************************************)
MaxIds == 3
MaxLen == 3
MaxGrupo == 3
MaxPessoas == 3

(***************************************************************************)
(* Exact arithmetic on <<n, d>> values.                                    *)
(***************************************************************************)
RECURSIVE Gcd(_, _)
Gcd(a, b) == IF b = 0 THEN a ELSE Gcd(b, a % b)

AbsInt(a) == IF a < 0 THEN -a ELSE a

SignInt(a) == IF a < 0 THEN -1 ELSE IF a > 0 THEN 1 ELSE 0

Rat(n, d) ==
    IF d = 0 THEN <<SignInt(n), 0>>
    ELSE LET g == Gcd(AbsInt(n), AbsInt(d))
             s == IF d < 0 THEN -1 ELSE 1
         IN  <<(s * n) \div g, (s * d) \div g>>

NaN == <<0, 0>>
Zero == <<0, 1>>
One == <<1, 1>>
Ten == <<10, 1>>

\* a decimal literal given in thousandths: Dec(7125) is 7.125
Dec(m) == Rat(m, 1000)

IsNaN(x) == x = NaN
IsFinite(x) == x[2] > 0

RAdd(x, y) ==
    IF IsFinite(x) /\ IsFinite(y)
    THEN LET g == Gcd(x[2], y[2])
         IN  Rat(x[1] * (y[2] \div g) + y[1] * (x[2] \div g), (x[2] \div g) * y[2])
    ELSE IF IsNaN(x) \/ IsNaN(y) THEN NaN
    ELSE IF IsFinite(x) THEN y
    ELSE IF IsFinite(y) THEN x
    ELSE IF x = y THEN x ELSE NaN

RNeg(x) == <<-x[1], x[2]>>

RSub(x, y) == RAdd(x, RNeg(y))

RMul(x, y) ==
    IF IsFinite(x) /\ IsFinite(y)
    THEN LET g1 == Gcd(AbsInt(x[1]), y[2])
             g2 == Gcd(AbsInt(y[1]), x[2])
         IN  Rat((x[1] \div g1) * (y[1] \div g2), (x[2] \div g2) * (y[2] \div g1))
    ELSE <<SignInt(x[1]) * SignInt(y[1]), 0>>

RDiv(x, y) ==
    IF IsFinite(x) /\ IsFinite(y)
    THEN IF y[1] = 0 THEN <<SignInt(x[1]), 0>>
         ELSE RMul(x, Rat(y[2], y[1]))
    ELSE IF IsFinite(y) THEN <<x[1] * (IF y[1] < 0 THEN -1 ELSE 1), 0>>
    ELSE IF IsFinite(x) /\ ~IsNaN(y) THEN Zero
    ELSE NaN

RAbs(x) == <<AbsInt(x[1]), x[2]>>

\* x < y; false when either side is NaN
RLt(x, y) ==
    IF IsNaN(x) \/ IsNaN(y) THEN FALSE
    ELSE IF IsFinite(x) /\ IsFinite(y)
    THEN LET g == Gcd(x[2], y[2])
         IN  x[1] * (y[2] \div g) < y[1] * (x[2] \div g)
    ELSE IF IsFinite(x) THEN y[1] > 0
    ELSE IF IsFinite(y) THEN x[1] < 0
    ELSE x[1] < y[1]

RGt(x, y) == RLt(y, x)

RLe(x, y) == ~IsNaN(x) /\ ~IsNaN(y) /\ ~RLt(y, x)

\* Python's min(a, b): b if b < a else a
RMin(a, b) == IF RLt(b, a) THEN b ELSE a

\* Python's round(x, 2): nearest multiple of 0.01, ties to the even one
Round2(x) ==
    IF ~IsFinite(x) THEN x
    ELSE LET n == x[1] * 100
             d == x[2]
             f == n \div d
             r == n - f * d
             q == IF 2 * r < d THEN f
                  ELSE IF 2 * r > d THEN f + 1
                  ELSE IF f % 2 = 0 THEN f ELSE f + 1
         IN  Rat(q, 100)


(***************************************************************************)
(* Genero (src/src/models/pessoa.py).                                      *)
(***************************************************************************)
MASCULINO == "Masculino"
FEMININO == "Feminino"
OUTRO == "Outro"
NAO_INFORMADO == "Nao Informado"

Genero == {MASCULINO, FEMININO, OUTRO, NAO_INFORMADO}

\* Optional[T]: None is <<>>, a value v is <<v>>
None == <<>>
Some(v) == <<v>>

(***************************************************************************)
(* numpy helpers used by calcular_estatisticas.                            *)
(***************************************************************************)
RECURSIVE SumSeq(_)
SumSeq(s) == IF s = <<>> THEN Zero ELSE RAdd(Head(s), SumSeq(Tail(s)))

\* np.mean: 0/0 = NaN on an empty array
Mean(s) == RDiv(SumSeq(s), <<Len(s), 1>>)

RECURSIVE Insert(_, _)
Insert(x, s) ==
    IF s = <<>> THEN <<x>>
    ELSE IF RLe(x, Head(s)) THEN <<x>> \o s
    ELSE <<Head(s)>> \o Insert(x, Tail(s))

RECURSIVE Sorted(_)
Sorted(s) == IF s = <<>> THEN <<>> ELSE Insert(Head(s), Sorted(Tail(s)))

\* np.percentile(arr, q), linear interpolation between closest ranks
\* a is the sorted array, lo the rank below the q-th percentile (from 0) and
\* pct what is left of (len - 1) * q, in hundredths
Interpolar(a, lo, pct) ==
    IF lo + 2 <= Len(a)
    THEN RAdd(a[lo + 1], RMul(Rat(pct, 100), RSub(a[lo + 2], a[lo + 1])))
    ELSE a[lo + 1]

Percentile(s, q) ==
    Interpolar(Sorted(s), ((Len(s) - 1) * q) \div 100, ((Len(s) - 1) * q) % 100)

RECURSIVE SumSqDev(_, _)
SumSqDev(s, m) ==
    IF s = <<>> THEN Zero
    ELSE RAdd(RMul(RSub(Head(s), m), RSub(Head(s), m)), SumSqDev(Tail(s), m))

\* np.var(arr, ddof=1): sum of squared deviations over n - 1; 0/0 = NaN for one sample
Var1(s) == RDiv(SumSqDev(s, Mean(s)), <<Len(s) - 1, 1>>)

\* np.std(arr, ddof=1) = sqrt(Var1).  The square root is not rational: the
\* model keeps the radicand.  sqrt is monotone, sqrt(0) = 0 and sqrt(NaN) = NaN,
\* so "is 0" and "is NaN" are the same question for the radicand.
Std1(s) == Var1(s)

(***************************************************************************)
(* BiasAnalyzer.calcular_estatisticas                                      *)
(***************************************************************************)
\* a plausible slip: the guard for the empty list forgotten, so that numpy's
\* NaN for the mean of nothing reaches every field
calcular_estatisticas_semGuarda(vals) ==
    IF vals = <<>>
    THEN [media |-> NaN, mediana |-> NaN, desvio_padrao |-> NaN,
          minimo |-> NaN, maximo |-> NaN, quartil_25 |-> NaN,
          quartil_75 |-> NaN, tamanho |-> 0]
    ELSE [media |-> Mean(vals),
          mediana |-> Percentile(vals, 50),
          desvio_padrao |-> Std1(vals),
          minimo |-> Sorted(vals)[1],
          maximo |-> Sorted(vals)[Len(vals)],
          quartil_25 |-> Percentile(vals, 25),
          quartil_75 |-> Percentile(vals, 75),
          tamanho |-> Len(vals)]

calcular_estatisticas(vals) ==
    IF vals = <<>>
    THEN [media |-> Zero, mediana |-> Zero, desvio_padrao |-> Zero,
          minimo |-> Zero, maximo |-> Zero, quartil_25 |-> Zero,
          quartil_75 |-> Zero, tamanho |-> 0]
    ELSE [media |-> Mean(vals),
          mediana |-> Percentile(vals, 50),
          desvio_padrao |-> Std1(vals),
          minimo |-> Sorted(vals)[1],
          maximo |-> Sorted(vals)[Len(vals)],
          quartil_25 |-> Percentile(vals, 25),
          quartil_75 |-> Percentile(vals, 75),
          tamanho |-> Len(vals)]

(***************************************************************************)
(* scipy.stats.ttest_ind(a, b) (pooled variance).  The p-value             *)
(* 2 * sf(|t|, df) is not rational; the model keeps what determines it:    *)
(*   <<"valor", v, 0>>   the float v itself,                               *)
(*   <<"ttest", t2, df>> 2 * sf(sqrt(t2), df), with t2 = t * t finite > 0. *)
(* t = +-inf gives p = 0.0, t = NaN gives p = NaN, t = 0 gives p = 1.0.    *)
(***************************************************************************)
PValor(v) == <<"valor", v, 0>>

\* the p-value of the statistic whose square is t2, with df degrees of freedom
PDoTeste(t2, df) ==
    IF IsNaN(t2) THEN PValor(NaN)
    ELSE IF ~IsFinite(t2) THEN PValor(Zero)
    ELSE IF t2 = Zero THEN PValor(One)
    ELSE <<"ttest", t2, df>>

\* the pooled variance of two samples of n1 and n2 values with variances v1, v2
VarianciaConjunta(n1, v1, n2, v2) ==
    RDiv(RAdd(RMul(<<n1 - 1, 1>>, v1), RMul(<<n2 - 1, 1>>, v2)), <<n1 + n2 - 2, 1>>)

\* t * t for a difference of means d: d * d / (svar * (1/n1 + 1/n2))
TQuadrado(d, svar, n1, n2) ==
    RDiv(RMul(d, d), RMul(svar, RAdd(Rat(1, n1), Rat(1, n2))))

ttest_ind(a, b) ==
    PDoTeste(TQuadrado(RSub(Mean(a), Mean(b)),
                       VarianciaConjunta(Len(a), Var1(a), Len(b), Var1(b)),
                       Len(a), Len(b)),
             Len(a) + Len(b) - 2)

\* squares of the two-sided critical values of Student's t, in thousandths,
\* for df = 2 .. 8 and the significance levels 0.01, 0.05 and 0.10
Crit2(a, df) ==
    IF a = Rat(1, 100)
    THEN <<98503, 34116, 21198, 16258, 13745, 12246, 11259>>[df - 1]
    ELSE IF a = Rat(1, 20)
    THEN <<18513, 10128, 7709, 6608, 5987, 5591, 5318>>[df - 1]
    ELSE <<8526, 5538, 4545, 4060, 3776, 3589, 3458>>[df - 1]

\* x > c / 1000 for a finite x >= 0, comparing integer parts first so that
\* large denominators do not overflow
GtMilli(x, c) ==
    LET q == x[1] \div x[2]
        r == x[1] % x[2]
    IN  \/ q > c \div 1000
        \/ q = c \div 1000 /\ r * 1000 > (c % 1000) * x[2]

\* p < a
PLess(p, a) ==
    IF p[1] = "valor" THEN RLt(p[2], a)
    ELSE IF RLe(One, a) THEN TRUE
    ELSE IF RLe(a, Zero) \/ IsNaN(a) THEN FALSE
    ELSE GtMilli(p[2], Crit2(a, p[3]))

(***************************************************************************)
(* BiasAnalyzer.analisar_vies_genero                                       *)
(* spg: function from a set of Genero to sequences; th, al: the analyzer's *)
(* threshold_vies and alpha.                                               *)
(***************************************************************************)
DictGet(d, k, default) == IF k \in DOMAIN d THEN d[k] ELSE default

\* a plausible slip: ">=" for ">"
ViesDetectado_naoEstrito(dp, th) == RLe(th, RAbs(dp))

\* vies_detectado = abs(diferenca_percentual) > self.threshold_vies
ViesDetectado(dp, th) == RGt(RAbs(dp), th)

\* a plausible slip: the difference taken the other way round
DiferencaMedias_invertida(stats_f, stats_m) == RSub(stats_f.media, stats_m.media)

\* a plausible slip: the difference without its sign
DiferencaMedias_absoluta(stats_f, stats_m) == RAbs(RSub(stats_m.media, stats_f.media))

\* diferenca_medias = stats_m.media - stats_f.media
DiferencaMedias(stats_f, stats_m) == RSub(stats_m.media, stats_f.media)

\* a plausible slip: one sample taken to be enough for the test
PodeTestar_umaAmostra(scores_f, scores_m) == Len(scores_f) > 0 /\ Len(scores_m) > 0

\* if len(scores_f) > 1 and len(scores_m) > 1
PodeTestar(scores_f, scores_m) == Len(scores_f) > 1 /\ Len(scores_m) > 1

\* diferenca_percentual = diferenca_medias / stats_f.media if stats_f.media > 0 else 0.0
DiferencaPercentual(stats_f, diferenca_medias) ==
    IF RGt(stats_f.media, Zero)
    THEN RDiv(diferenca_medias, stats_f.media)
    ELSE Zero

\* the t-test of the two lists, or 1.0 when it cannot be run
PValue(scores_f, scores_m) ==
    IF PodeTestar(scores_f, scores_m)
    THEN ttest_ind(scores_m, scores_f)
    ELSE PValor(One)

\* the ResultadoAnaliseVies built from the values computed for the two lists
ResultadoAnaliseVies(stats_f, stats_m, diferenca_medias, diferenca_percentual, p_value, th, al) ==
    [estatisticas_feminino |-> stats_f,
     estatisticas_masculino |-> stats_m,
     diferenca_medias |-> diferenca_medias,
     diferenca_percentual |-> diferenca_percentual,
     p_value |-> p_value,
     vies_detectado |-> ViesDetectado(diferenca_percentual, th),
     significancia_estatistica |-> PLess(p_value, al)]

\* the steps of analisar_vies_genero in the order of the code, each value
\* computed once and handed on: the difference of the means, then the
\* relative difference, then the result
ComDiferenca(stats_f, stats_m, diferenca_medias, p_value, th, al) ==
    ResultadoAnaliseVies(stats_f, stats_m, diferenca_medias,
                         DiferencaPercentual(stats_f, diferenca_medias),
                         p_value, th, al)

ComEstatisticas(stats_f, stats_m, p_value, th, al) ==
    ComDiferenca(stats_f, stats_m, DiferencaMedias(stats_f, stats_m), p_value, th, al)

AnalisarListas(scores_f, scores_m, th, al) ==
    ComEstatisticas(calcular_estatisticas(scores_f), calcular_estatisticas(scores_m),
                    PValue(scores_f, scores_m), th, al)

analisar_vies_genero(spg, th, al) ==
    AnalisarListas(DictGet(spg, FEMININO, <<>>), DictGet(spg, MASCULINO, <<>>), th, al)

(***************************************************************************)
(* BiasCorrector: its analyzer is BiasAnalyzer() with the default          *)
(* threshold_vies = 0.05 and alpha = 0.05.                                 *)
(***************************************************************************)
DefaultThreshold == Rat(5, 100)
DefaultAlpha == Rat(5, 100)

(***************************************************************************)
(* BiasCorrector.calcular_pesos_ajuste: <<peso_feminino, peso_masculino>>  *)
(***************************************************************************)
\* a plausible slip: the guard for an empty group forgotten
calcular_pesos_ajuste_semGuarda(spg) ==
    LET scores_f == DictGet(spg, FEMININO, <<>>)
        scores_m == DictGet(spg, MASCULINO, <<>>)
    IN  IF Mean(scores_f) = Zero THEN <<One, One>>
        ELSE <<RDiv(Mean(scores_m), Mean(scores_f)), One>>

\* a plausible slip: the weight given to whichever group has the lower mean
calcular_pesos_ajuste_adaptativo(spg) ==
    LET scores_f == DictGet(spg, FEMININO, <<>>)
        scores_m == DictGet(spg, MASCULINO, <<>>)
    IN  IF scores_f = <<>> \/ scores_m = <<>> THEN <<One, One>>
        ELSE IF Mean(scores_f) = Zero THEN <<One, One>>
        ELSE IF RLt(Mean(scores_m), Mean(scores_f)) /\ Mean(scores_m) # Zero
        THEN <<One, RDiv(Mean(scores_f), Mean(scores_m))>>
        ELSE <<RDiv(Mean(scores_m), Mean(scores_f)), One>>

\* a plausible slip: the ratio inverted (women's mean over men's mean)
calcular_pesos_ajuste_invertido(spg) ==
    LET scores_f == DictGet(spg, FEMININO, <<>>)
        scores_m == DictGet(spg, MASCULINO, <<>>)
    IN  IF scores_f = <<>> \/ scores_m = <<>> THEN <<One, One>>
        ELSE IF Mean(scores_f) = Zero THEN <<One, One>>
        ELSE <<RDiv(Mean(scores_f), Mean(scores_m)), One>>

\* a plausible slip: the weight taken as the relative difference of the means
\* instead of their ratio
calcular_pesos_ajuste_pelaDiferenca(spg) ==
    LET scores_f == DictGet(spg, FEMININO, <<>>)
        scores_m == DictGet(spg, MASCULINO, <<>>)
    IN  IF scores_f = <<>> \/ scores_m = <<>> THEN <<One, One>>
        ELSE IF Mean(scores_f) = Zero THEN <<One, One>>
        ELSE <<RDiv(RSub(Mean(scores_m), Mean(scores_f)), Mean(scores_f)), One>>

calcular_pesos_ajuste(spg) ==
    LET scores_f == DictGet(spg, FEMININO, <<>>)
        scores_m == DictGet(spg, MASCULINO, <<>>)
    IN  IF scores_f = <<>> \/ scores_m = <<>> THEN <<One, One>>
        ELSE IF Mean(scores_f) = Zero THEN <<One, One>>
        ELSE <<RDiv(Mean(scores_m), Mean(scores_f)), One>>

(***************************************************************************)
(* BiasCorrector.aplicar_reponderacao                                      *)
(* A dict is a function; its keys are visited in increasing order (the     *)
(* insertion order of the model's inputs).                                 *)
(***************************************************************************)
RECURSIVE KeysFrom(_, _)
KeysFrom(S, k) ==
    IF S = {} THEN <<>>
    ELSE IF k \in S THEN <<k>> \o KeysFrom(S \ {k}, k + 1)
    ELSE KeysFrom(S, k + 1)

\* the keys of dict d, in iteration order
Keys(d) == KeysFrom(DOMAIN d, 0)

\* generos.get(pessoa_id): None is modelled by the string "None"
GeneroGet(gen, id) == DictGet(gen, id, "None")

\* a plausible slip: persons with no recognised Genero counted with the men
RECURSIVE Agrupar_incluiOutros(_, _, _, _)
Agrupar_incluiOutros(ks, sc, gen, g) ==
    IF ks = <<>> THEN <<>>
    ELSE (IF \/ GeneroGet(gen, Head(ks)) = g
             \/ g = MASCULINO /\ GeneroGet(gen, Head(ks)) # FEMININO
          THEN <<sc[Head(ks)]>> ELSE <<>>)
         \o Agrupar_incluiOutros(Tail(ks), sc, gen, g)

\* the loop "for pessoa_id, score in scores.items(): ... append(score)"
RECURSIVE Agrupar(_, _, _, _)
Agrupar(ks, sc, gen, g) ==
    IF ks = <<>> THEN <<>>
    ELSE (IF GeneroGet(gen, Head(ks)) = g THEN <<sc[Head(ks)]>> ELSE <<>>)
         \o Agrupar(Tail(ks), sc, gen, g)

Particionar_incluiOutros(sc, gen) ==
    [g \in {FEMININO, MASCULINO} |-> Agrupar_incluiOutros(Keys(sc), sc, gen, g)]

\* scores_por_genero = {FEMININO: [...], MASCULINO: [...]} filled by the loop
Particionar(sc, gen) ==
    [g \in {FEMININO, MASCULINO} |-> Agrupar(Keys(sc), sc, gen, g)]

\* a plausible slip: the ceiling forgotten
ScoreAjustado_semTeto(score, genero, peso_f, peso_m) ==
    IF genero = FEMININO THEN RMul(score, peso_f)
    ELSE IF genero = MASCULINO THEN RMul(score, peso_m)
    ELSE score

\* a plausible slip: the ceiling applied to the men as well
ScoreAjustado_tetoParaTodos(score, genero, peso_f, peso_m) ==
    IF genero = FEMININO THEN RMin(Ten, RMul(score, peso_f))
    ELSE IF genero = MASCULINO THEN RMin(Ten, RMul(score, peso_m))
    ELSE score

\* a plausible slip: each group multiplied by the other group's weight
ScoreAjustado_pesosTrocados(score, genero, peso_f, peso_m) ==
    IF genero = FEMININO THEN RMin(Ten, RMul(score, peso_m))
    ELSE IF genero = MASCULINO THEN RMul(score, peso_f)
    ELSE score

\* the adjusted score of one person, before rounding
ScoreAjustado(score, genero, peso_f, peso_m) ==
    IF genero = FEMININO THEN RMin(Ten, RMul(score, peso_f))
    ELSE IF genero = MASCULINO THEN RMul(score, peso_m)
    ELSE score

\* a plausible slip: the rounding to 2 decimals forgotten
AjustarScores_semArredondar(sc, gen, peso_f, peso_m) ==
    [id \in DOMAIN sc |->
        ScoreAjustado(sc[id], DictGet(gen, id, NAO_INFORMADO), peso_f, peso_m)]

\* a plausible slip: the loop runs over generos instead of scores
AjustarScores_sobreGeneros(sc, gen, peso_f, peso_m) ==
    [id \in DOMAIN sc \cap DOMAIN gen |->
        Round2(ScoreAjustado(sc[id], gen[id], peso_f, peso_m))]

\* the loop that fills scores_ajustados when the correction is applied
AjustarScores(sc, gen, peso_f, peso_m) ==
    [id \in DOMAIN sc |->
        Round2(ScoreAjustado(sc[id], DictGet(gen, id, NAO_INFORMADO), peso_f, peso_m))]

\* a plausible slip: the flag aplicar_correcao ignored
DeveCorrigir_ignoraFlag(apl, analise_pre) == analise_pre.vies_detectado

\* a plausible slip: the correction gated on statistical significance too
DeveCorrigir_comSignificancia(apl, analise_pre) ==
    apl /\ analise_pre.vies_detectado /\ analise_pre.significancia_estatistica

\* if aplicar_correcao and analise_pre.vies_detectado
DeveCorrigir(apl, analise_pre) == apl /\ analise_pre.vies_detectado

\* a plausible slip: the post-correction analysis run on the original scores
ResultadoReponderacao_posDosOriginais(sc, gen, pesos, analise_pre, corrige, ajustados) ==
    [peso_ajuste_feminino |-> pesos[1],
     peso_ajuste_masculino |-> pesos[2],
     scores_originais |-> sc,
     scores_ajustados |-> ajustados,
     analise_pre_ajuste |-> analise_pre,
     analise_pos_ajuste |->
        IF corrige
        THEN Some(analisar_vies_genero(Particionar(sc, gen),
                                       DefaultThreshold, DefaultAlpha))
        ELSE None]

\* the ResultadoReponderacao of the branch taken, with the adjusted scores
ResultadoReponderacao(sc, gen, pesos, analise_pre, corrige, ajustados) ==
    [peso_ajuste_feminino |-> pesos[1],
     peso_ajuste_masculino |-> pesos[2],
     scores_originais |-> sc,
     scores_ajustados |-> ajustados,
     analise_pre_ajuste |-> analise_pre,
     analise_pos_ajuste |->
        IF corrige
        THEN Some(analisar_vies_genero(Particionar(ajustados, gen),
                                       DefaultThreshold, DefaultAlpha))
        ELSE None]

\* the steps of aplicar_reponderacao after the partition, each value computed
\* once and handed on: the decision, then the adjusted scores, then the result
ComDecisao(sc, gen, pesos, analise_pre, corrige) ==
    ResultadoReponderacao(sc, gen, pesos, analise_pre, corrige,
        IF corrige THEN AjustarScores(sc, gen, pesos[1], pesos[2]) ELSE sc)

ComAnalisePre(sc, gen, apl, pesos, analise_pre) ==
    ComDecisao(sc, gen, pesos, analise_pre, DeveCorrigir(apl, analise_pre))

ComParticao(sc, gen, apl, spg) ==
    ComAnalisePre(sc, gen, apl, calcular_pesos_ajuste(spg),
                  analisar_vies_genero(spg, DefaultThreshold, DefaultAlpha))

aplicar_reponderacao(sc, gen, apl) == ComParticao(sc, gen, apl, Particionar(sc, gen))

(***************************************************************************)
(* Object identity.  A Python name is bound to a dict object; two names    *)
(* bound to the same object see each other's changes.  Objects are         *)
(* numbered: the caller's scores and generos, then the dicts               *)
(* aplicar_reponderacao creates.  0 stands for a name not yet bound.       *)
(***************************************************************************)
IdScores == 1
IdGeneros == 2
IdNovoOriginais == 3
IdNovoAjustados == 4

IdsDoChamador ==
    [scores |-> IdScores, generos |-> IdGeneros,
     scores_originais |-> 0, scores_ajustados |-> 0]

\* a plausible slip: the dict handed back as it is instead of a copy
Copia_mesmoObjeto(id, novo) == id

\* dict.copy(): a new object with the same entries
Copia(id, novo) == novo

\* scores_originais = scores.copy(); scores_ajustados is the dict created
\* empty and filled by the loop, or scores.copy() when nothing is corrected
IdsDoResultado(i, corrige) ==
    [i EXCEPT !.scores_originais = Copia(i.scores, IdNovoOriginais),
              !.scores_ajustados = IF corrige THEN IdNovoAjustados
                                   ELSE Copia(i.scores, IdNovoAjustados)]

\* d[0] = 1.0: the entry a caller adds
Acrescentar(d) == [k \in DOMAIN d \cup {0} |-> IF k = 0 THEN One ELSE d[k]]

\* what the name bound to object id holds once object alvo got the entry
VistoDe(d, id, alvo) == IF id = alvo THEN Acrescentar(d) ELSE d

(***************************************************************************)
(* The reports.  A report is a text; the model keeps, under a name for     *)
(* each line, the value the line prints after formatting, and the          *)
(* conclusion as the sequence of its messages.  A standard deviation is    *)
(* kept by its radicand and a p-value by what determines it, as above.     *)
(***************************************************************************)
\* f"{x:.4f}": x to 4 decimals, ties to even
Round4(x) ==
    IF ~IsFinite(x) THEN x
    ELSE LET n == x[1] * 10000
             d == x[2]
             f == n \div d
             r == n - f * d
             q == IF 2 * r < d THEN f
                  ELSE IF 2 * r > d THEN f + 1
                  ELSE IF f % 2 = 0 THEN f ELSE f + 1
         IN  Rat(q, 10000)

\* a plausible slip: "or" where the strong-bias branch needs both flags
Conclusao_umaFlagBasta(a) ==
    IF a.vies_detectado \/ a.significancia_estatistica
    THEN <<"VIES DETECTADO com significancia estatistica",
           IF RGt(a.diferenca_medias, Zero)
           THEN "Homens recebem avaliacoes maiores que mulheres"
           ELSE "Mulheres recebem avaliacoes maiores que homens">>
    ELSE IF a.vies_detectado
    THEN <<"VIES DETECTADO (mas sem significancia estatistica)">>
    ELSE <<"Nao foi detectado vies significativo">>

Conclusao(a) ==
    IF a.vies_detectado /\ a.significancia_estatistica
    THEN <<"VIES DETECTADO com significancia estatistica",
           IF RGt(a.diferenca_medias, Zero)
           THEN "Homens recebem avaliacoes maiores que mulheres"
           ELSE "Mulheres recebem avaliacoes maiores que homens">>
    ELSE IF a.vies_detectado
    THEN <<"VIES DETECTADO (mas sem significancia estatistica)">>
    ELSE <<"Nao foi detectado vies significativo">>

EstatisticasNoRelatorio(e) ==
    [media |-> Round2(e.media), mediana |-> Round2(e.mediana),
     desvio_padrao |-> e.desvio_padrao, tamanho |-> e.tamanho]

gerar_relatorio_analise(a) ==
    [feminino |-> EstatisticasNoRelatorio(a.estatisticas_feminino),
     masculino |-> EstatisticasNoRelatorio(a.estatisticas_masculino),
     diferenca_medias |-> Round2(a.diferenca_medias),
     diferenca_percentual |-> Round2(RMul(a.diferenca_percentual, Rat(100, 1))),
     p_value |-> a.p_value,
     conclusao |-> Conclusao(a)]

\* a plausible slip: the guard against a zero pre-correction difference forgotten
Melhoria_semGuarda(pre, pos) ==
    LET diff_pre == RAbs(pre.diferenca_percentual)
        diff_pos == RAbs(pos.diferenca_percentual)
    IN  RMul(RDiv(RSub(diff_pre, diff_pos), diff_pre), Rat(100, 1))

\* melhoria = (diff_pre - diff_pos) / diff_pre * 100 if diff_pre > 0 else 0
Melhoria(pre, pos) ==
    LET diff_pre == RAbs(pre.diferenca_percentual)
        diff_pos == RAbs(pos.diferenca_percentual)
    IN  IF RGt(diff_pre, Zero)
        THEN RMul(RDiv(RSub(diff_pre, diff_pos), diff_pre), Rat(100, 1))
        ELSE Zero

\* if resultado.analise_pos_ajuste
TemPosAjuste(r) == r.analise_pos_ajuste # None

gerar_relatorio_reponderacao(r) ==
    [peso_feminino |-> Round4(r.peso_ajuste_feminino),
     peso_masculino |-> Round4(r.peso_ajuste_masculino),
     analise_pre |-> gerar_relatorio_analise(r.analise_pre_ajuste),
     analise_pos |->
        IF TemPosAjuste(r)
        THEN Some(gerar_relatorio_analise(r.analise_pos_ajuste[1]))
        ELSE None,
     reducao_do_vies |->
        IF TemPosAjuste(r)
        THEN Some(Round2(Melhoria(r.analise_pre_ajuste, r.analise_pos_ajuste[1])))
        ELSE None]

(***************************************************************************)
(* src/src/analytics/ranking.py.  A dict argument that may be left out is   *)
(* None or Some(dict); a constructor that raises gives None instead of an   *)
(* object, and a function in which one raised returns only the exception.   *)
(***************************************************************************)
\* if not 0 <= self.peso <= 1: raise ValueError
PesoValido(peso) == RLe(Zero, peso) /\ RLe(peso, One)

CriterioAvaliacao(nome, peso) ==
    IF PesoValido(peso) THEN Some([nome |-> nome, peso |-> peso]) ELSE None

\* the truth value of an optional dict: neither None nor empty
Verdadeiro(o) == o # None /\ DOMAIN o[1] # {}

\* `d and pessoa_id in d`
Contem(o, pessoa_id) == Verdadeiro(o) /\ pessoa_id \in DOMAIN o[1]

\* if usar_ninebox and avaliacoes_ninebox_desempenho
UsaNineBox(a) == a.usar_ninebox /\ Verdadeiro(a.avaliacoes_ninebox_desempenho)

\* one criterion appended when its scores were given
CriterioSe(o, nome, peso) ==
    IF Verdadeiro(o) THEN <<CriterioAvaliacao(nome, peso)>> ELSE <<>>

\* the CriterioAvaliacao constructions of lines 288-323, in order
CriteriosConstruidos(a) ==
    IF UsaNineBox(a)
    THEN <<CriterioAvaliacao("Desempenho (Nine Box)", One),
           CriterioAvaliacao("Potencial (Nine Box)", One)>>
    ELSE CriterioSe(a.avaliacoes_competencias, "Competencias", One)
         \o CriterioSe(a.avaliacoes_360, "360 Graus", Rat(9, 10))
         \o CriterioSe(a.avaliacoes_okr, "OKRs", Rat(6, 5))

ChavesSe(o) == IF Verdadeiro(o) THEN DOMAIN o[1] ELSE {}

todas_pessoas(a) ==
    ChavesSe(a.avaliacoes_competencias) \cup ChavesSe(a.avaliacoes_360)
        \cup ChavesSe(a.avaliacoes_okr) \cup ChavesSe(a.avaliacoes_ninebox_desempenho)

\* the argument that holds the scores of a criterion
FonteDe(a, nome) ==
    IF nome = "Desempenho (Nine Box)" THEN a.avaliacoes_ninebox_desempenho
    ELSE IF nome = "Potencial (Nine Box)" THEN a.avaliacoes_ninebox_potencial
    ELSE IF nome = "Competencias" THEN a.avaliacoes_competencias
    ELSE IF nome = "360 Graus" THEN a.avaliacoes_360
    ELSE a.avaliacoes_okr

NomesDoRamo(a) ==
    IF UsaNineBox(a) THEN {"Desempenho (Nine Box)", "Potencial (Nine Box)"}
    ELSE {"Competencias", "360 Graus", "OKRs"}

scores_pessoa(a, pessoa_id) ==
    [nome \in {n \in NomesDoRamo(a) : Contem(FonteDe(a, n), pessoa_id)}
        |-> FonteDe(a, nome)[1][pessoa_id]]

\* only persons with at least one score are added
avaliacoes_combinadas(a) ==
    [pessoa_id \in {id \in todas_pessoas(a) : DOMAIN scores_pessoa(a, id) # {}}
        |-> scores_pessoa(a, pessoa_id)]

Levantou(cs) == \E i \in DOMAIN cs : cs[i] = None

ComCriterios(a, cs) ==
    IF Levantou(cs)
    THEN [excecao |-> "ValueError", avaliacoes_combinadas |-> <<>>, criterios |-> <<>>]
    ELSE [excecao |-> "nenhuma",
          avaliacoes_combinadas |-> avaliacoes_combinadas(a),
          criterios |-> [i \in DOMAIN cs |-> cs[i][1]]]

combinar_avaliacoes_em_scores(a) == ComCriterios(a, CriteriosConstruidos(a))

(***************************************************************************)
(* RankingCalculator.  avaliacoes is a dict whose order of insertion        *)
(* matters to the ranking: it is the sequence of its <<pessoa_id, scores>>  *)
(* items.                                                                  *)
(***************************************************************************)
\* pesos = {c.nome: c.peso for c in criterios}; pesos.get(nome, 1.0): of
\* criteria with one name the last gives the weight
PesoDe(criterios, nome) ==
    LET I == {i \in DOMAIN criterios : criterios[i].nome = nome}
    IN  IF I = {} THEN One
        ELSE criterios[CHOOSE i \in I : \A j \in I : j <= i].peso

RECURSIVE SomaPonderada(_, _, _)
SomaPonderada(av, criterios, nomes) ==
    IF nomes = {} THEN Zero
    ELSE LET n == CHOOSE x \in nomes : TRUE
         IN  RAdd(RMul(av[n], PesoDe(criterios, n)),
                  SomaPonderada(av, criterios, nomes \ {n}))

calcular_score_final(pessoa_id, avaliacoes_por_criterio, criterios) ==
    [pessoa_id |-> pessoa_id,
     scores_por_criterio |-> avaliacoes_por_criterio,
     score_final |-> SomaPonderada(avaliacoes_por_criterio, criterios,
                                   DOMAIN avaliacoes_por_criterio),
     posicao |-> None,
     detalhes |-> <<>>]

\* if pessoas and pessoa_id in pessoas: score.detalhes = {...}
Detalhes(pessoas, pessoa_id) ==
    IF Contem(pessoas, pessoa_id)
    THEN [nome |-> pessoas[1][pessoa_id].nome,
          cargo |-> pessoas[1][pessoa_id].cargo,
          nivel |-> pessoas[1][pessoa_id].nivel_hierarquico,
          genero |-> pessoas[1][pessoa_id].genero,
          departamento |-> pessoas[1][pessoa_id].departamento]
    ELSE <<>>

ComDetalhes(score, pessoas) ==
    [score EXCEPT !.detalhes = Detalhes(pessoas, score.pessoa_id)]

\* the list built by the loop of lines 157-175
ScoresCalculados(avaliacoes, criterios, pessoas) ==
    [i \in DOMAIN avaliacoes |->
        ComDetalhes(calcular_score_final(avaliacoes[i][1], avaliacoes[i][2], criterios),
                    pessoas)]

\* a plausible slip: sorted(...)[::-1] instead of reverse=True, which puts
\* the later of two equal scores first
InserirOrdenado_antesDosEmpates(s, x) ==
    LET k == Cardinality({i \in DOMAIN s : RLt(x.score_final, s[i].score_final)})
    IN  SubSeq(s, 1, k) \o <<x>> \o SubSeq(s, k + 1, Len(s))

\* sorted(..., reverse=True) is stable: x goes behind every score placed
\* before it that is greater or equal
InserirOrdenado(s, x) ==
    LET k == Cardinality({i \in DOMAIN s : RLe(x.score_final, s[i].score_final)})
    IN  SubSeq(s, 1, k) \o <<x>> \o SubSeq(s, k + 1, Len(s))

RECURSIVE OrdenarAte(_, _)
OrdenarAte(s, n) ==
    IF n = 0 THEN <<>> ELSE InserirOrdenado(OrdenarAte(s, n - 1), s[n])

\* sorted(scores, key=lambda x: x.score_final, reverse=True)
scores_ordenados(s) == OrdenarAte(s, Len(s))

\* for i, score in enumerate(scores_ordenados, 1): score.posicao = i
ComPosicoes(s) == [i \in DOMAIN s |-> [s[i] EXCEPT !.posicao = i]]

ScoresFinais(s) == [i \in DOMAIN s |-> s[i].score_final]

Metadados(s, criterios) ==
    [total_pessoas |-> Len(s),
     total_criterios |-> Len(criterios),
     score_maximo |-> IF s # <<>> THEN s[1].score_final ELSE Zero,
     score_minimo |-> IF s # <<>> THEN s[Len(s)].score_final ELSE Zero,
     score_medio |-> IF s # <<>> THEN Mean(ScoresFinais(s)) ELSE Zero]

ResultadoRanking(s, criterios) ==
    [scores |-> s, criterios |-> criterios, metadados |-> Metadados(s, criterios)]

calcular_ranking(avaliacoes, criterios, pessoas) ==
    ResultadoRanking(
        ComPosicoes(scores_ordenados(ScoresCalculados(avaliacoes, criterios, pessoas))),
        criterios)

(***************************************************************************)
(* Inputs.                                                                 *)
(***************************************************************************)
\* scores a caller may pass: negative, zero, three decimals, in range, above 10
ScoreValues == <<Dec(-2000), Dec(0), Dec(4125), Dec(8000), Dec(12000)>>

\* what generos holds for a person: a Genero, or no entry ("ausente")
GeneroOpts == <<FEMININO, MASCULINO, OUTRO, NAO_INFORMADO, "ausente">>

NumOpts == Len(ScoreValues) * Len(GeneroOpts)

OptScore(k) == ScoreValues[((k - 1) \div Len(GeneroOpts)) + 1]
OptGenero(k) == GeneroOpts[((k - 1) % Len(GeneroOpts)) + 1]

\* the nondecreasing sequences of n option indexes >= lo: persons are taken up
\* to renaming of their ids, which no operation depends on
RECURSIVE NonDec(_, _, _)
NonDec(n, lo, hi) ==
    IF n = 0 THEN {<<>>}
    ELSE UNION {{<<k>> \o s : s \in NonDec(n - 1, k, hi)} : k \in lo..hi}

\* the scores and generos dicts of persons 1..Len(es); extra adds person 0 to
\* generos only (an id with no score)
ScoresDe(es) == [i \in 1..Len(es) |-> OptScore(es[i])]

GenerosDe(es, extra) ==
    [i \in {j \in 1..Len(es) : OptGenero(es[j]) # "ausente"}
           \cup (IF extra THEN {0} ELSE {})
       |-> IF i = 0 THEN FEMININO ELSE OptGenero(es[i])]

\* scores of two populated groups: close means with little spread, distant
\* means, and a score near the ceiling
GrupoValues == <<Dec(7000), Dec(8000), Dec(8100), Dec(8300), Dec(9500)>>

\* the nondecreasing sequences over GrupoValues of 2 to MaxGrupo scores
GrupoSeqs ==
    UNION {{[i \in 1..n |-> GrupoValues[s[i]]] : s \in NonDec(n, 1, Len(GrupoValues))}
           : n \in 2..MaxGrupo}

\* scores of a few cents, where rounding to 2 decimals is coarse
CentavoValues == <<Dec(0), Dec(10), Dec(20), Dec(30)>>

\* the nondecreasing sequences over CentavoValues of 1 to MaxGrupo scores
CentavoSeqs ==
    UNION {{[i \in 1..n |-> CentavoValues[s[i]]] : s \in NonDec(n, 1, Len(CentavoValues))}
           : n \in 1..MaxGrupo}

NoInput == <<>>

\* any mix of persons: every Genero, absent entries, at most MaxIds persons
InitReponderacao ==
    /\ pc = "call"
    /\ op = "aplicar_reponderacao"
    /\ \E n \in 0..MaxIds : \E es \in NonDec(n, 1, NumOpts) : \E extra \in BOOLEAN :
          /\ scores = ScoresDe(es)
          /\ generos = GenerosDe(es, extra)
    /\ aplicar_correcao \in BOOLEAN
    /\ scores_por_genero = NoInput
    /\ valores = NoInput
    /\ threshold_vies = DefaultThreshold
    /\ alpha = DefaultAlpha
    /\ resultado_reponderacao = NoInput
    /\ ids = IdsDoChamador
    /\ args = NoInput
    /\ resultado = <<>>

\* two populated groups: women first, then men, up to MaxGrupo persons each
InitGrupos ==
    /\ pc = "call"
    /\ op = "aplicar_reponderacao"
    /\ \E fm \in (GrupoSeqs \X GrupoSeqs) \cup (CentavoSeqs \X CentavoSeqs) :
       \E f \in {fm[1]} : \E m \in {fm[2]} :
          /\ scores = f \o m
          /\ generos = [i \in 1..(Len(f) + Len(m)) |->
                           IF i <= Len(f) THEN FEMININO ELSE MASCULINO]
    /\ aplicar_correcao \in BOOLEAN
    /\ scores_por_genero = NoInput
    /\ valores = NoInput
    /\ threshold_vies = DefaultThreshold
    /\ alpha = DefaultAlpha
    /\ resultado_reponderacao = NoInput
    /\ ids = IdsDoChamador
    /\ args = NoInput
    /\ resultado = <<>>

\* samples handed to the analyzer: negative, zero, and pairs whose relative
\* difference is exactly 0.05 (8 and 8.4) or exactly 0.20 (7 and 8.4)
AmostraValues == <<Dec(-2000), Dec(0), Dec(7000), Dec(8000), Dec(8400)>>

\* the nondecreasing sequences over AmostraValues of at most MaxGrupo samples
AmostraSeqs ==
    UNION {{[i \in 1..n |-> AmostraValues[s[i]]] : s \in NonDec(n, 1, Len(AmostraValues))}
           : n \in 0..MaxGrupo}

\* a {Genero: [scores]} dict: each of the two keys holds a list (Some) or is
\* missing (None); the dict may also hold a list for OUTRO
OptAmostraSeqs == {None} \cup {Some(a) : a \in AmostraSeqs}

DictPorGenero(f, m, o) ==
    [g \in (IF f # None THEN {FEMININO} ELSE {})
           \cup (IF m # None THEN {MASCULINO} ELSE {})
           \cup (IF o THEN {OUTRO} ELSE {})
       |-> IF g = FEMININO THEN f[1] ELSE IF g = MASCULINO THEN m[1] ELSE <<Dec(12000)>>]

\* BiasAnalyzer(threshold_vies, alpha) configurations
Configs ==
    {<<Rat(5, 100), Rat(5, 100)>>, <<Rat(20, 100), Rat(5, 100)>>,
     <<Rat(5, 100), Rat(1, 100)>>, <<Rat(5, 100), One>>}

InitAnalise ==
    /\ pc = "call"
    /\ op = "analisar_vies_genero"
    /\ \E f \in OptAmostraSeqs : \E m \in OptAmostraSeqs :
          scores_por_genero = DictPorGenero(f, m, FALSE)
    /\ \E c \in Configs : threshold_vies = c[1] /\ alpha = c[2]
    /\ scores = NoInput
    /\ generos = NoInput
    /\ aplicar_correcao = FALSE
    /\ valores = NoInput
    /\ resultado_reponderacao = NoInput
    /\ ids = NoInput
    /\ args = NoInput
    /\ resultado = <<>>

InitPesos ==
    /\ pc = "call"
    /\ op = "calcular_pesos_ajuste"
    /\ \E f \in OptAmostraSeqs : \E m \in OptAmostraSeqs : \E o \in BOOLEAN :
          scores_por_genero = DictPorGenero(f, m, o)
    /\ threshold_vies = DefaultThreshold
    /\ alpha = DefaultAlpha
    /\ scores = NoInput
    /\ generos = NoInput
    /\ aplicar_correcao = FALSE
    /\ valores = NoInput
    /\ resultado_reponderacao = NoInput
    /\ ids = NoInput
    /\ args = NoInput
    /\ resultado = <<>>

\* sample lists in any order, at most MaxLen long
RECURSIVE SeqsUpTo(_, _)
SeqsUpTo(S, n) ==
    IF n = 0 THEN {<<>>}
    ELSE SeqsUpTo(S, n - 1)
         \cup {<<x>> \o s : x \in S, s \in {t \in SeqsUpTo(S, n - 1) : Len(t) = n - 1}}

EstatValues == {Dec(-2000), Dec(0), Dec(7125), Dec(8000), Dec(12000)}

InitEstatisticas ==
    /\ pc = "call"
    /\ op = "calcular_estatisticas"
    /\ valores \in SeqsUpTo(EstatValues, MaxLen)
    /\ threshold_vies = DefaultThreshold
    /\ alpha = DefaultAlpha
    /\ scores = NoInput
    /\ generos = NoInput
    /\ aplicar_correcao = FALSE
    /\ scores_por_genero = NoInput
    /\ resultado_reponderacao = NoInput
    /\ ids = NoInput
    /\ args = NoInput
    /\ resultado = <<>>

\* the sample lists behind the results handed to the report
RelatorioListas ==
    {<<>>, <<Dec(-2000)>>, <<Dec(0)>>, <<Dec(7000)>>, <<Dec(8000)>>, <<Dec(8400)>>,
     <<Dec(7000), Dec(7000), Dec(7000)>>, <<Dec(8000), Dec(8000), Dec(8000)>>}

DoisGeneros(f, m) == [g \in {FEMININO, MASCULINO} |-> IF g = FEMININO THEN f ELSE m]

\* two groups whose means are 3.7% apart with hardly any spread: a
\* difference below the threshold that the t-test still finds significant
ListasProximas == <<<<Dec(8000), Dec(8000), Dec(8010)>>, <<Dec(8300), Dec(8300), Dec(8310)>>>>

\* the analysis BiasCorrector's analyzer returns for two lists
RelatorioAnalise(f, m) ==
    analisar_vies_genero(DoisGeneros(f, m), DefaultThreshold, DefaultAlpha)

\* a ResultadoReponderacao is a plain dataclass: besides the results
\* aplicar_reponderacao returns, the report is handed any pre-correction
\* analysis with any post-correction analysis or none
InitRelatorio ==
    /\ pc = "call"
    /\ op = "gerar_relatorio_reponderacao"
    /\ \/ \E f \in RelatorioListas : \E m \in RelatorioListas : \E apl \in BOOLEAN :
             resultado_reponderacao =
                 aplicar_reponderacao(f \o m,
                     [i \in 1..(Len(f) + Len(m)) |->
                         IF i <= Len(f) THEN FEMININO ELSE MASCULINO], apl)
       \/ \E f1 \in RelatorioListas : \E m1 \in RelatorioListas :
          \E f2 \in RelatorioListas : \E m2 \in RelatorioListas :
          \E peso \in {One, Rat(8, 7)} :
          \E pos \in {None, Some(RelatorioAnalise(f2, m2))} :
             resultado_reponderacao =
                 [peso_ajuste_feminino |-> peso,
                  peso_ajuste_masculino |-> One,
                  scores_originais |-> <<>>,
                  scores_ajustados |-> <<>>,
                  analise_pre_ajuste |-> RelatorioAnalise(f1, m1),
                  analise_pos_ajuste |-> pos]
       \/ \E i \in {1, 2} : \E peso \in {One, Rat(8, 7)} :
             resultado_reponderacao =
                 [peso_ajuste_feminino |-> peso,
                  peso_ajuste_masculino |-> One,
                  scores_originais |-> <<>>,
                  scores_ajustados |-> <<>>,
                  analise_pre_ajuste |->
                      RelatorioAnalise(ListasProximas[i], ListasProximas[3 - i]),
                  analise_pos_ajuste |-> None]
    /\ threshold_vies = DefaultThreshold
    /\ alpha = DefaultAlpha
    /\ scores = NoInput
    /\ generos = NoInput
    /\ aplicar_correcao = FALSE
    /\ scores_por_genero = NoInput
    /\ valores = NoInput
    /\ ids = NoInput
    /\ args = NoInput
    /\ resultado = <<>>

\* persons of the ranking functions
Pessoas == {"p1", "p2"}

\* a score dict as handed to combinar_avaliacoes_em_scores: left out, or the
\* score v for any set of persons, none included
MapaOpts(v) == {None} \cup {Some([id \in S |-> v]) : S \in SUBSET Pessoas}

\* the inputs of the other operations, unused by the ranking functions
SemEntradaDoVies ==
    /\ scores = NoInput
    /\ generos = NoInput
    /\ aplicar_correcao = FALSE
    /\ scores_por_genero = NoInput
    /\ valores = NoInput
    /\ threshold_vies = DefaultThreshold
    /\ alpha = DefaultAlpha
    /\ resultado_reponderacao = NoInput
    /\ ids = NoInput

InitCombinar ==
    /\ pc = "call"
    /\ op = "combinar_avaliacoes_em_scores"
    /\ \E c \in MapaOpts(Dec(7000)) : \E t \in MapaOpts(Dec(8000)) :
       \E o \in MapaOpts(Dec(6000)) : \E d \in MapaOpts(Dec(9000)) :
       \E p \in MapaOpts(Dec(5000)) : \E u \in BOOLEAN :
          args = [avaliacoes_competencias |-> c,
                  avaliacoes_360 |-> t,
                  avaliacoes_okr |-> o,
                  avaliacoes_ninebox_desempenho |-> d,
                  avaliacoes_ninebox_potencial |-> p,
                  usar_ninebox |-> u]
    /\ SemEntradaDoVies
    /\ resultado = <<>>

\* the id of the i-th person inserted into avaliacoes
IdsNaOrdem == <<"p2", "p1", "p3", "p4", "p5">>

\* the scores of one person by criterion; "Extra" is not among the criteria
AvaliacaoOpts ==
    {[n \in {} |-> Zero],
     [n \in {"Tecnica"} |-> Dec(8000)],
     [n \in {"Tecnica", "Lideranca"} |-> IF n = "Tecnica" THEN Dec(6000) ELSE Dec(4000)],
     [n \in {"Lideranca"} |-> Dec(8000)],
     [n \in {"Extra"} |-> Dec(8000)]}

RECURSIVE AvaliacoesDe(_)
AvaliacoesDe(n) ==
    IF n = 0 THEN {<<>>}
    ELSE {Append(s, <<IdsNaOrdem[n], a>>) : s \in AvaliacoesDe(n - 1), a \in AvaliacaoOpts}

\* no criterion; two criteria; a name given twice and a weight of 0
CriteriosOpts ==
    {<<>>,
     <<[nome |-> "Tecnica", peso |-> One], [nome |-> "Lideranca", peso |-> Rat(1, 2)]>>,
     <<[nome |-> "Tecnica", peso |-> Rat(1, 2)], [nome |-> "Tecnica", peso |-> One],
       [nome |-> "Lideranca", peso |-> Zero]>>}

Ana ==
    [nome |-> "Ana", cargo |-> "Analista", nivel_hierarquico |-> "PLENO",
     genero |-> FEMININO, departamento |-> "TI"]

PessoasOpts == {None, Some([id \in {} |-> Ana]), Some([id \in {"p1"} |-> Ana])}

InitRanking ==
    /\ pc = "call"
    /\ op = "calcular_ranking"
    /\ \E n \in 0..MaxPessoas : \E av \in AvaliacoesDe(n) :
       \E cs \in CriteriosOpts : \E ps \in PessoasOpts :
          args = [avaliacoes |-> av, criterios |-> cs, pessoas |-> ps]
    /\ SemEntradaDoVies
    /\ resultado = <<>>

AplicarReponderacao ==
    /\ pc = "call"
    /\ op = "aplicar_reponderacao"
    /\ resultado' = aplicar_reponderacao(scores, generos, aplicar_correcao)
    /\ ids' = IdsDoResultado(ids, resultado'.analise_pos_ajuste # None)
    /\ pc' = "done"
    /\ UNCHANGED <<op, scores, generos, aplicar_correcao, scores_por_genero,
                   valores, threshold_vies, alpha, resultado_reponderacao, args>>

\* the caller adds an entry to one of the two dicts it was returned; every
\* name bound to that same object sees the entry
MudarMapaDevolvido ==
    /\ pc = "done"
    /\ op = "aplicar_reponderacao"
    /\ \E alvo \in {ids.scores_originais, ids.scores_ajustados} :
          /\ scores' = VistoDe(scores, ids.scores, alvo)
          /\ generos' = VistoDe(generos, ids.generos, alvo)
          /\ resultado' =
                [resultado EXCEPT
                    !.scores_originais = VistoDe(@, ids.scores_originais, alvo),
                    !.scores_ajustados = VistoDe(@, ids.scores_ajustados, alvo)]
    /\ pc' = "mudado"
    /\ UNCHANGED <<op, aplicar_correcao, scores_por_genero, valores,
                   threshold_vies, alpha, resultado_reponderacao, ids, args>>

AnalisarViesGenero ==
    /\ pc = "call"
    /\ op = "analisar_vies_genero"
    /\ resultado' = analisar_vies_genero(scores_por_genero, threshold_vies, alpha)
    /\ pc' = "done"
    /\ UNCHANGED <<op, scores, generos, aplicar_correcao, scores_por_genero,
                   valores, threshold_vies, alpha, resultado_reponderacao, ids, args>>

CalcularPesosAjuste ==
    /\ pc = "call"
    /\ op = "calcular_pesos_ajuste"
    /\ resultado' = calcular_pesos_ajuste(scores_por_genero)
    /\ pc' = "done"
    /\ UNCHANGED <<op, scores, generos, aplicar_correcao, scores_por_genero,
                   valores, threshold_vies, alpha, resultado_reponderacao, ids, args>>

CalcularEstatisticas ==
    /\ pc = "call"
    /\ op = "calcular_estatisticas"
    /\ resultado' = calcular_estatisticas(valores)
    /\ pc' = "done"
    /\ UNCHANGED <<op, scores, generos, aplicar_correcao, scores_por_genero,
                   valores, threshold_vies, alpha, resultado_reponderacao, ids, args>>

GerarRelatorioReponderacao ==
    /\ pc = "call"
    /\ op = "gerar_relatorio_reponderacao"
    /\ resultado' = gerar_relatorio_reponderacao(resultado_reponderacao)
    /\ pc' = "done"
    /\ UNCHANGED <<op, scores, generos, aplicar_correcao, scores_por_genero,
                   valores, threshold_vies, alpha, resultado_reponderacao, ids, args>>

CombinarAvaliacoesEmScores ==
    /\ pc = "call"
    /\ op = "combinar_avaliacoes_em_scores"
    /\ resultado' = combinar_avaliacoes_em_scores(args)
    /\ pc' = "done"
    /\ UNCHANGED <<op, scores, generos, aplicar_correcao, scores_por_genero,
                   valores, threshold_vies, alpha, resultado_reponderacao, ids, args>>

CalcularRanking ==
    /\ pc = "call"
    /\ op = "calcular_ranking"
    /\ resultado' = calcular_ranking(args.avaliacoes, args.criterios, args.pessoas)
    /\ pc' = "done"
    /\ UNCHANGED <<op, scores, generos, aplicar_correcao, scores_por_genero,
                   valores, threshold_vies, alpha, resultado_reponderacao, ids, args>>

Init ==
    \/ InitReponderacao
    \/ InitGrupos
    \/ InitAnalise
    \/ InitPesos
    \/ InitEstatisticas
    \/ InitRelatorio
    \/ InitCombinar
    \/ InitRanking

Next ==
    \/ AplicarReponderacao
    \/ AnalisarViesGenero
    \/ CalcularPesosAjuste
    \/ CalcularEstatisticas
    \/ GerarRelatorioReponderacao
    \/ MudarMapaDevolvido
    \/ CombinarAvaliacoesEmScores
    \/ CalcularRanking

Spec == Init /\ [][Next]_vars

(***************************************************************************)
(* Properties.                                                             *)
(***************************************************************************)
Feito(o) == pc = "done" /\ op = o

Reponderado == Feito("aplicar_reponderacao")

\* a correction was applied by the finished call
Corrigido == Reponderado /\ resultado.analise_pos_ajuste # None

\* the Genero the correction loop sees for a person
GeneroDe(id) == DictGet(generos, id, NAO_INFORMADO)

\* persons of neither FEMININO nor MASCULINO (or with no entry in generos)
SemGrupo == {id \in DOMAIN scores : GeneroDe(id) \notin {FEMININO, MASCULINO}}

Restrito(d, S) == [id \in S |-> d[id]]

\* both groups hold at least one person of scores
DoisGrupos ==
    /\ resultado.analise_pre_ajuste.estatisticas_feminino.tamanho > 0
    /\ resultado.analise_pre_ajuste.estatisticas_masculino.tamanho > 0

\* C1: scores_ajustados, scores_originais and the input scores have the same
\* keys, whatever generos holds and whether or not the correction is applied.
C1_MesmasChaves ==
    Reponderado =>
        /\ DOMAIN resultado.scores_ajustados = DOMAIN resultado.scores_originais
        /\ DOMAIN resultado.scores_originais = DOMAIN scores

\* C1 witness: a correction was applied to two populated groups while generos lacks one person of
\* scores and holds a person who has no score.
C1_Witness ==
    /\ Corrigido
    /\ DoisGrupos
    /\ DOMAIN scores \ DOMAIN generos # {}
    /\ DOMAIN generos \ DOMAIN scores # {}

\* C2: without a correction (flag off, or flag on and no bias detected) the
\* adjusted scores are the input scores, entry for entry, and there is no
\* post-correction analysis.
C2_SemCorrecaoCopia ==
    (Reponderado /\ (~aplicar_correcao \/ ~resultado.analise_pre_ajuste.vies_detectado))
        => /\ resultado.scores_ajustados = scores
           /\ resultado.analise_pos_ajuste = None

\* C2 witness: the flag is on, both groups are populated, no bias is detected
\* and a score with three decimals comes back unrounded.
C2_Witness ==
    /\ Reponderado
    /\ aplicar_correcao
    /\ ~resultado.analise_pre_ajuste.vies_detectado
    /\ DoisGrupos
    /\ RGt(resultado.analise_pre_ajuste.estatisticas_feminino.media, Zero)
    /\ \E id \in DOMAIN scores :
          /\ scores[id] # Round2(scores[id])
          /\ resultado.scores_ajustados[id] = scores[id]

\* C3 as claimed: after a correction every adjusted score is <= 10.0, for
\* every person whatever the group and for any input scores.
C3_Original ==
    Corrigido =>
        \A id \in DOMAIN scores : RLe(resultado.scores_ajustados[id], Ten)

\* C3 amended: after a correction every adjusted score of a woman is <= 10.0,
\* and the adjusted score of anyone else is <= 10.0 whenever the input score is.
C3_TetoFeminino ==
    Corrigido =>
        \A id \in DOMAIN scores :
            (GeneroDe(id) = FEMININO \/ RLe(scores[id], Ten))
                => RLe(resultado.scores_ajustados[id], Ten)

\* C3 witness: a correction of two populated groups in which a woman's
\* weighted score exceeds 10.0 and is brought down to the ceiling.
C3_Witness ==
    /\ Corrigido
    /\ DoisGrupos
    /\ \E id \in DOMAIN scores :
          /\ GeneroDe(id) = FEMININO
          /\ RGt(RMul(scores[id], resultado.peso_ajuste_feminino), Ten)
          /\ resultado.scores_ajustados[id] = Ten

\* C4: the post-correction analysis is present exactly when the flag is on and
\* the pre-correction analysis detected bias; the adjusted scores are the
\* weighted ones in that case and the input ones otherwise.  The significance
\* flag appears nowhere in the condition.
C4_SoThresholdDecide ==
    Reponderado =>
        LET corrige == aplicar_correcao /\ resultado.analise_pre_ajuste.vies_detectado
        IN  /\ (resultado.analise_pos_ajuste # None) <=> corrige
            /\ corrige =>
                 \A id \in DOMAIN scores :
                    resultado.scores_ajustados[id] =
                       Round2(IF GeneroDe(id) = FEMININO
                              THEN RMin(Ten, RMul(scores[id], resultado.peso_ajuste_feminino))
                              ELSE scores[id])
            /\ ~corrige => resultado.scores_ajustados = scores

\* C4 witness: the t-test ran and found no significance, bias was detected, and
\* the correction was applied all the same.
C4_Witness ==
    /\ Corrigido
    /\ resultado.analise_pre_ajuste.p_value[1] = "ttest"
    /\ ~resultado.analise_pre_ajuste.significancia_estatistica
    /\ resultado.scores_ajustados # scores

\* C4, the other direction: a significant difference below the threshold is
\* reachable, and C4_SoThresholdDecide says no correction is applied there.
C4_SignificanteSemVies ==
    /\ Reponderado
    /\ aplicar_correcao
    /\ resultado.analise_pre_ajuste.p_value[1] = "ttest"
    /\ resultado.analise_pre_ajuste.significancia_estatistica
    /\ ~resultado.analise_pre_ajuste.vies_detectado

\* the analysis of the scores sc of the persons of FEMININO and MASCULINO only
AnaliseSemOutros(sc) ==
    analisar_vies_genero(Particionar(Restrito(sc, DOMAIN scores \ SemGrupo), generos),
                         DefaultThreshold, DefaultAlpha)

Lista(g) == DictGet(scores_por_genero, g, <<>>)

\* x is the quotient num / den of two sums, stated without dividing:
\* x * (den_sum * num_len) = num_sum * den_len
RazaoDasMedias(x, num, den) ==
    RMul(x, RMul(SumSeq(den), <<Len(num), 1>>)) = RMul(SumSeq(num), <<Len(den), 1>>)

\* C6: calcular_pesos_ajuste returns (1.0, 1.0) when the women's list is empty,
\* the men's list is empty or the women's mean is exactly 0, and
\* (men's mean / women's mean, 1.0) in every other case; women [7,7,7] and men
\* [8,8,8] give (8/7, 1.0).
C6_Pesos ==
    Feito("calcular_pesos_ajuste") =>
        LET f == Lista(FEMININO)
            m == Lista(MASCULINO)
        IN  /\ (f = <<>> \/ m = <<>> \/ SumSeq(f) = Zero) => resultado = <<One, One>>
            /\ (f # <<>> /\ m # <<>> /\ SumSeq(f) # Zero) =>
                  /\ RazaoDasMedias(resultado[1], m, f)
                  /\ resultado[2] = One
            /\ (f = <<Dec(7000), Dec(7000), Dec(7000)>>
                  /\ m = <<Dec(8000), Dec(8000), Dec(8000)>>)
                  => resultado = <<Rat(8, 7), One>>

\* C6 witness: the weights of women [7,7,7] and men [8,8,8] were computed.
C6_Witness ==
    /\ Feito("calcular_pesos_ajuste")
    /\ Lista(FEMININO) = <<Dec(7000), Dec(7000), Dec(7000)>>
    /\ Lista(MASCULINO) = <<Dec(8000), Dec(8000), Dec(8000)>>
    /\ resultado = <<Rat(8, 7), One>>

\* C7: the men's weight is exactly 1.0 in every result of
\* calcular_pesos_ajuste and of aplicar_reponderacao, and after a correction a
\* man's adjusted score is his input score rounded to 2 decimals: never
\* scaled, never clamped.
C7_PesoMasculinoUm ==
    /\ Feito("calcular_pesos_ajuste") => resultado[2] = One
    /\ Reponderado => resultado.peso_ajuste_masculino = One
    /\ Corrigido =>
          \A id \in DOMAIN scores :
              GeneroDe(id) = MASCULINO
                  => resultado.scores_ajustados[id] = Round2(scores[id])

\* C7 witness: a correction with a women's weight other than 1.0 left a man's
\* score above 10.0 as it was.
C7_Witness ==
    /\ Corrigido
    /\ resultado.peso_ajuste_feminino # One
    /\ \E id \in DOMAIN scores :
          /\ GeneroDe(id) = MASCULINO
          /\ RGt(scores[id], Ten)
          /\ resultado.scores_ajustados[id] = scores[id]

Analisado == Feito("analisar_vies_genero")

\* C8 as claimed: diferenca_percentual is (men's mean - women's mean) / women's
\* mean whenever the women's mean is not 0, positive or negative, and 0.0 only
\* when it is exactly 0; never infinite nor NaN.
C8_Claim ==
    Analisado =>
        LET mf == resultado.estatisticas_feminino.media
            mm == resultado.estatisticas_masculino.media
        IN  /\ IsFinite(resultado.diferenca_percentual)
            /\ mf # Zero => resultado.diferenca_percentual = RDiv(RSub(mm, mf), mf)
            /\ mf = Zero => resultado.diferenca_percentual = Zero

C9_WitnessDefault ==
    /\ Analisado
    /\ threshold_vies = DefaultThreshold
    /\ resultado.diferenca_percentual = Rat(5, 100)
    /\ ~resultado.vies_detectado

\* C10 as claimed: for a list of 0 or 1 samples calcular_estatisticas returns
\* desvio_padrao = 0, not NaN.
C10_Claim ==
    (Feito("calcular_estatisticas") /\ Len(valores) <= 1)
        => resultado.desvio_padrao = Zero

\* C11: when the women's or the men's list has fewer than 2 samples (a missing
\* key counts as an empty list) the t-test is not run: p_value is exactly 1.0
\* and, for every alpha <= 1, significancia_estatistica is false.
C11_PoucasAmostras ==
    (Analisado /\ (Len(Lista(FEMININO)) < 2 \/ Len(Lista(MASCULINO)) < 2))
        => /\ resultado.p_value = PValor(One)
           /\ RLe(alpha, One) => ~resultado.significancia_estatistica
           /\ resultado.estatisticas_feminino.tamanho = Len(Lista(FEMININO))
           /\ resultado.estatisticas_masculino.tamanho = Len(Lista(MASCULINO))

\* C11 witness: the analysis returned for a dict with no MASCULINO key and one
\* woman, under alpha = 1.0, the largest level the claim covers.
C11_Witness ==
    /\ Analisado
    /\ MASCULINO \notin DOMAIN scores_por_genero
    /\ Len(Lista(FEMININO)) = 1
    /\ alpha = One
    /\ resultado.p_value = PValor(One)
    /\ ~resultado.significancia_estatistica

\* every sample of a non-empty list equals the first one
SemVariancia(xs) == \A i \in 1..Len(xs) : xs[i] = xs[1]

\* C12 as claimed: when both lists have at least 2 samples and one of them has
\* no variance, the t-test is not run: p_value is 1.0 and
\* significancia_estatistica is false.
C12_Claim ==
    ( /\ Analisado
      /\ Len(Lista(FEMININO)) >= 2
      /\ Len(Lista(MASCULINO)) >= 2
      /\ SemVariancia(Lista(FEMININO)) \/ SemVariancia(Lista(MASCULINO)) )
        => /\ resultado.p_value = PValor(One)
           /\ ~resultado.significancia_estatistica

\* the input dict with the FEMININO and MASCULINO lists exchanged
TrocarChave(g) == IF g = FEMININO THEN MASCULINO ELSE IF g = MASCULINO THEN FEMININO ELSE g

Trocar(spg) == [g \in {TrocarChave(k) : k \in DOMAIN spg} |-> spg[TrocarChave(g)]]

\* the analysis of the exchanged input under the same configuration
AnaliseTrocada == analisar_vies_genero(Trocar(scores_por_genero), threshold_vies, alpha)

MediasPositivas ==
    /\ RGt(resultado.estatisticas_feminino.media, Zero)
    /\ RGt(resultado.estatisticas_masculino.media, Zero)

\* C13 as claimed: for every pair of lists, exchanging them negates
\* diferenca_medias, gives a diferenca_percentual of the opposite sign and
\* leaves vies_detectado the same.
C13_Original ==
    Analisado =>
        /\ AnaliseTrocada.diferenca_medias = RNeg(resultado.diferenca_medias)
        /\ SignInt(AnaliseTrocada.diferenca_percentual[1])
               = - SignInt(resultado.diferenca_percentual[1])
        /\ AnaliseTrocada.vies_detectado = resultado.vies_detectado

\* C13 (amended): exchanging the lists always negates diferenca_medias; when
\* both means are positive the two diferenca_percentual have opposite signs
\* (both 0 for equal means) and, each call dividing by the mean of its own
\* FEMININO list, a bias detected with the larger mean as divisor is also
\* detected with the smaller one, while the converse can fail.
C13_TrocaDeGrupos ==
    Analisado =>
        /\ AnaliseTrocada.diferenca_medias = RNeg(resultado.diferenca_medias)
        /\ MediasPositivas =>
            /\ SignInt(AnaliseTrocada.diferenca_percentual[1])
                   = - SignInt(resultado.diferenca_percentual[1])
            /\ ( /\ RLe(resultado.estatisticas_masculino.media,
                        resultado.estatisticas_feminino.media)
                 /\ resultado.vies_detectado ) => AnaliseTrocada.vies_detectado

\* C13 witness: two lists with positive, different means whose analysis
\* detects a bias while the analysis of the exchanged lists does not.
C13_Witness ==
    /\ Analisado
    /\ MediasPositivas
    /\ resultado.diferenca_medias # Zero
    /\ AnaliseTrocada.diferenca_medias = RNeg(resultado.diferenca_medias)
    /\ resultado.vies_detectado
    /\ ~AnaliseTrocada.vies_detectado

\* the women's mean is above the men's, both positive, in the partition of the
\* finished reweighting
MulheresAcima ==
    /\ Reponderado
    /\ RGt(resultado.analise_pre_ajuste.estatisticas_masculino.media, Zero)
    /\ RGt(resultado.analise_pre_ajuste.estatisticas_feminino.media,
           resultado.analise_pre_ajuste.estatisticas_masculino.media)

\* C14 as claimed: the weight goes to FEMININO only; when the women's mean is
\* above the men's, both positive, and a correction is applied, the women's
\* weight is below 1, the men's is 1.0, no woman's score is raised and the
\* men's scores are not scaled.
C14_Original ==
    /\ Reponderado => resultado.peso_ajuste_masculino = One
    /\ (MulheresAcima /\ Corrigido) =>
          /\ RLt(resultado.peso_ajuste_feminino, One)
          /\ \A id \in DOMAIN scores :
                /\ GeneroDe(id) = FEMININO
                      => RLe(resultado.scores_ajustados[id], scores[id])
                /\ GeneroDe(id) = MASCULINO
                      => resultado.scores_ajustados[id] = Round2(scores[id])

\* C14 (amended): as claimed, except that only a woman's score that is not
\* negative is never raised, and then not above its own rounding to 2
\* decimals; a negative score times a weight below 1 moves towards 0.
C14_DirecaoFixa ==
    /\ Reponderado => resultado.peso_ajuste_masculino = One
    /\ (MulheresAcima /\ Corrigido) =>
          /\ RLt(resultado.peso_ajuste_feminino, One)
          /\ RGt(resultado.peso_ajuste_feminino, Zero)
          /\ \A id \in DOMAIN scores :
                /\ (GeneroDe(id) = FEMININO /\ RLe(Zero, scores[id]))
                      => RLe(resultado.scores_ajustados[id], Round2(scores[id]))
                /\ (GeneroDe(id) = FEMININO /\ RLt(scores[id], Zero))
                      => RLe(Round2(scores[id]), resultado.scores_ajustados[id])
                /\ GeneroDe(id) = MASCULINO
                      => resultado.scores_ajustados[id] = Round2(scores[id])

\* C14 witness: a correction with the women's mean above the men's lowered a
\* woman's positive score and left a man's score as it was.
C14_Witness ==
    /\ MulheresAcima
    /\ Corrigido
    /\ RLt(resultado.peso_ajuste_feminino, One)
    /\ \E id \in DOMAIN scores :
          /\ GeneroDe(id) = FEMININO
          /\ RGt(scores[id], Zero)
          /\ RLt(resultado.scores_ajustados[id], scores[id])
    /\ \E id \in DOMAIN scores :
          /\ GeneroDe(id) = MASCULINO
          /\ resultado.scores_ajustados[id] = scores[id]

\* the women's weight as the pre-correction analysis determines it: the men's
\* mean over the women's mean, 1.0 when a group is empty or the women's mean is 0
PesoDaAnalisePre ==
    LET pre == resultado.analise_pre_ajuste
    IN  IF pre.estatisticas_feminino.tamanho = 0 \/ pre.estatisticas_masculino.tamanho = 0
        THEN One
        ELSE IF pre.estatisticas_feminino.media = Zero THEN One
        ELSE RDiv(pre.estatisticas_masculino.media, pre.estatisticas_feminino.media)

\* C15: when a correction is applied, every woman's adjusted score is
\* round(min(10.0, s * peso_f), 2) with peso_f the weight of the partition
\* analysed before the correction; 7.0 under the weight 8/7 becomes 8.0.
C15_AjusteFeminino ==
    Corrigido =>
        \A id \in DOMAIN scores :
            GeneroDe(id) = FEMININO
                => /\ resultado.scores_ajustados[id]
                          = Round2(RMin(Ten, RMul(scores[id], PesoDaAnalisePre)))
                   /\ (scores[id] = Dec(7000) /\ PesoDaAnalisePre = Rat(8, 7))
                          => resultado.scores_ajustados[id] = Dec(8000)

\* C15 witness: a correction under the weight 8/7 took a woman's 7.0 to 8.0.
C15_Witness ==
    /\ Corrigido
    /\ resultado.peso_ajuste_feminino = Rat(8, 7)
    /\ \E id \in DOMAIN scores :
          /\ GeneroDe(id) = FEMININO
          /\ scores[id] = Dec(7000)
          /\ resultado.scores_ajustados[id] = Dec(8000)

\* C16: aplicar_reponderacao of an empty scores dict, whatever generos holds and
\* whether or not the correction is asked for, returns empty scores_originais
\* and scores_ajustados, the weights (1.0, 1.0), no analise_pos_ajuste, and an
\* analise_pre_ajuste of two groups of size 0 with no bias detected.
C16_ScoresVazio ==
    (Reponderado /\ DOMAIN scores = {}) =>
        /\ DOMAIN resultado.scores_originais = {}
        /\ DOMAIN resultado.scores_ajustados = {}
        /\ resultado.peso_ajuste_feminino = One
        /\ resultado.peso_ajuste_masculino = One
        /\ resultado.analise_pos_ajuste = None
        /\ resultado.analise_pre_ajuste.estatisticas_feminino.tamanho = 0
        /\ resultado.analise_pre_ajuste.estatisticas_masculino.tamanho = 0
        /\ ~resultado.analise_pre_ajuste.vies_detectado

\* C16 witness: the call with no scores, a generos dict that still names a
\* person, and the correction asked for, has returned.
C16_Witness ==
    /\ Reponderado
    /\ DOMAIN scores = {}
    /\ DOMAIN generos # {}
    /\ aplicar_correcao
    /\ resultado.analise_pos_ajuste = None
    /\ resultado.peso_ajuste_feminino = One

Calculado == Feito("calcular_estatisticas")

\* C17: calcular_estatisticas returns tamanho equal to the length of the list;
\* for the empty list tamanho is 0 and media, mediana, desvio_padrao, minimo,
\* maximo, quartil_25 and quartil_75 are all 0.
C17_TamanhoEVazio ==
    Calculado =>
        /\ resultado.tamanho = Len(valores)
        /\ valores = <<>> =>
              /\ resultado.media = Zero
              /\ resultado.mediana = Zero
              /\ resultado.desvio_padrao = Zero
              /\ resultado.minimo = Zero
              /\ resultado.maximo = Zero
              /\ resultado.quartil_25 = Zero
              /\ resultado.quartil_75 = Zero

\* C17 witness: the statistics of the empty list have been returned, all 0.
C17_Witness ==
    /\ Calculado
    /\ valores = <<>>
    /\ resultado.tamanho = 0
    /\ resultado.media = Zero
    /\ resultado.maximo = Zero

\* the mean of a list as a quotient of its sum, 0 for the empty list
MediaDe(xs) == IF xs = <<>> THEN Zero ELSE RDiv(SumSeq(xs), <<Len(xs), 1>>)

Setes == <<Dec(7000), Dec(7000), Dec(7000)>>
Oitos == <<Dec(8000), Dec(8000), Dec(8000)>>

\* C18: diferenca_medias is the men's mean minus the women's mean, positive
\* exactly when the men's mean is the higher; for women [7.0, 7.0, 7.0], men
\* [8.0, 8.0, 8.0] and the threshold 0.05 the analysis returns
\* diferenca_medias = 1.0, diferenca_percentual = 1/7 and vies_detectado.
C18_DiferencaComSinal ==
    Analisado =>
        /\ resultado.diferenca_medias
               = RSub(MediaDe(Lista(MASCULINO)), MediaDe(Lista(FEMININO)))
        /\ RGt(resultado.diferenca_medias, Zero)
               <=> RGt(MediaDe(Lista(MASCULINO)), MediaDe(Lista(FEMININO)))
        /\ ( /\ Lista(FEMININO) = Setes
             /\ Lista(MASCULINO) = Oitos
             /\ threshold_vies = DefaultThreshold )
               => /\ resultado.diferenca_medias = One
                  /\ resultado.diferenca_percentual = Rat(1, 7)
                  /\ resultado.vies_detectado

\* C18 witness: the analysis of women [7.0, 7.0, 7.0] and men [8.0, 8.0, 8.0]
\* under the default threshold returned a difference of 1.0 and a bias.
C18_Witness ==
    /\ Analisado
    /\ Lista(FEMININO) = Setes
    /\ Lista(MASCULINO) = Oitos
    /\ threshold_vies = DefaultThreshold
    /\ resultado.diferenca_medias = One
    /\ resultado.vies_detectado

Relatado == Feito("gerar_relatorio_reponderacao")

\* |diferenca_percentual| before and after the correction, as the report reads them
DiffPre == RAbs(resultado_reponderacao.analise_pre_ajuste.diferenca_percentual)
DiffPos == RAbs(resultado_reponderacao.analise_pos_ajuste[1].diferenca_percentual)

\* C20: the report holds the post-correction section and the bias reduction
\* exactly when analise_pos_ajuste is present; the reduction printed is
\* (|pre| - |pos|) / |pre| * 100 to 2 decimals, and 0.00 when the
\* pre-correction diferenca_percentual is 0: it is a finite number for every
\* ResultadoReponderacao.
C20_ReducaoDoVies ==
    Relatado =>
        /\ resultado_reponderacao.analise_pos_ajuste = None
              => /\ resultado.analise_pos = None
                 /\ resultado.reducao_do_vies = None
        /\ resultado_reponderacao.analise_pos_ajuste # None
              => /\ resultado.analise_pos # None
                 /\ resultado.reducao_do_vies # None
                 /\ IsFinite(resultado.reducao_do_vies[1])
                 /\ DiffPre = Zero => resultado.reducao_do_vies[1] = Zero
                 /\ DiffPre # Zero =>
                       resultado.reducao_do_vies[1]
                           = Round2(RMul(RDiv(RSub(DiffPre, DiffPos), DiffPre), Rat(100, 1)))

\* C20 witness: a report of a result whose pre-correction difference is 0 and
\* whose post-correction analysis is present and shows a difference: the
\* reduction printed is 0.00.
C20_Witness ==
    /\ Relatado
    /\ resultado_reponderacao.analise_pos_ajuste # None
    /\ DiffPre = Zero
    /\ DiffPos # Zero
    /\ resultado.reducao_do_vies = Some(Zero)

\* the persons of scores that generos places in group g
IdsDe(g) == {id \in DOMAIN scores : id \in DOMAIN generos /\ generos[id] = g}

\* the values d holds for the persons of S, by increasing id
RECURSIVE ValoresDe(_, _)
ValoresDe(d, S) ==
    IF S = {} THEN <<>>
    ELSE LET menor == CHOOSE id \in S : \A outro \in S : id <= outro
         IN  <<d[menor]>> \o ValoresDe(d, S \ {menor})

\* the analysis, under the corrector's default analyzer, of the scores d split
\* into the women and the men that generos names
AnaliseDaParticao(d) ==
    analisar_vies_genero(
        [g \in {FEMININO, MASCULINO} |-> ValoresDe(d, IdsDe(g))],
        DefaultThreshold, DefaultAlpha)

\* C21: analise_pre_ajuste is the analysis of the original scores split into
\* FEMININO and MASCULINO persons only; when a correction is applied,
\* analise_pos_ajuste is the analysis of scores_ajustados split by the same
\* generos, and its two group sizes are those of analise_pre_ajuste.
C21_AnalisesDasParticoes ==
    Reponderado =>
        /\ resultado.analise_pre_ajuste = AnaliseDaParticao(scores)
        /\ resultado.analise_pre_ajuste.estatisticas_feminino.tamanho
               = Cardinality(IdsDe(FEMININO))
        /\ resultado.analise_pre_ajuste.estatisticas_masculino.tamanho
               = Cardinality(IdsDe(MASCULINO))
        /\ Corrigido =>
              /\ resultado.analise_pos_ajuste
                     = Some(AnaliseDaParticao(resultado.scores_ajustados))
              /\ resultado.analise_pos_ajuste[1].estatisticas_feminino.tamanho
                     = resultado.analise_pre_ajuste.estatisticas_feminino.tamanho
              /\ resultado.analise_pos_ajuste[1].estatisticas_masculino.tamanho
                     = resultado.analise_pre_ajuste.estatisticas_masculino.tamanho

\* C21 witness: a correction of two populated groups, with a person of neither
\* group present, after which the women's mean is no longer what it was.
C21_Witness ==
    /\ Corrigido
    /\ DoisGrupos
    /\ SemGrupo # {}
    /\ resultado.analise_pos_ajuste[1].estatisticas_feminino.media
           # resultado.analise_pre_ajuste.estatisticas_feminino.media
    /\ resultado.analise_pos_ajuste[1].estatisticas_feminino.tamanho
           = Cardinality(IdsDe(FEMININO))

\* a step of aplicar_reponderacao itself
PassoReponderar == pc = "call" /\ op = "aplicar_reponderacao" /\ pc' = "done"

\* a step in which the caller changes one of the two dicts returned
PassoMudar == pc = "done" /\ op = "aplicar_reponderacao" /\ pc' = "mudado"

\* C22: aplicar_reponderacao leaves the caller's scores and generos as they
\* were, in either branch, and returns scores_originais and scores_ajustados
\* as objects other than the caller's two dicts and other than each other:
\* an entry added afterwards to one of them appears in that one only.
C22_MapasDistintos ==
    [][ /\ PassoReponderar =>
            /\ scores' = scores
            /\ generos' = generos
            /\ ids'.scores = ids.scores
            /\ ids'.generos = ids.generos
            /\ Cardinality({ids'.scores, ids'.generos,
                            ids'.scores_originais, ids'.scores_ajustados}) = 4
        /\ PassoMudar =>
            /\ scores' = scores
            /\ generos' = generos
            /\ (resultado'.scores_originais # resultado.scores_originais)
                   # (resultado'.scores_ajustados # resultado.scores_ajustados)
      ]_vars

\* C22 witness: nothing was corrected, so both dicts returned are copies of
\* scores; the caller added an entry to scores_ajustados, and neither
\* scores_originais nor the caller's scores has it.
C22_Witness ==
    /\ pc = "mudado"
    /\ resultado.analise_pos_ajuste = None
    /\ DOMAIN scores # {}
    /\ 0 \in DOMAIN resultado.scores_ajustados
    /\ resultado.scores_originais = scores
    /\ 0 \notin DOMAIN scores

\* the analyses a finished report was written from, each with the
\* conclusion the report gives it
ConclusoesRelatadas ==
    {<<resultado_reponderacao.analise_pre_ajuste, resultado.analise_pre.conclusao>>}
        \cup (IF resultado_reponderacao.analise_pos_ajuste = None THEN {}
              ELSE {<<resultado_reponderacao.analise_pos_ajuste[1],
                      resultado.analise_pos[1].conclusao>>})

\* C23: the report of an analysis ends in exactly one conclusion: the
\* strong-bias message with a direction (men higher when diferenca_medias is
\* above 0, women higher otherwise) when bias is detected and significant;
\* the weak-bias message when bias is detected without significance; the
\* no-bias message when bias is not detected, significant or not.
C23_TabelaDeConclusao ==
    Relatado =>
        \A ac \in ConclusoesRelatadas :
            LET a == ac[1]
                c == ac[2]
            IN  /\ (a.vies_detectado /\ a.significancia_estatistica) =>
                    /\ Len(c) = 2
                    /\ c[1] = "VIES DETECTADO com significancia estatistica"
                    /\ c[2] = IF RGt(a.diferenca_medias, Zero)
                              THEN "Homens recebem avaliacoes maiores que mulheres"
                              ELSE "Mulheres recebem avaliacoes maiores que homens"
                /\ (a.vies_detectado /\ ~a.significancia_estatistica) =>
                    c = <<"VIES DETECTADO (mas sem significancia estatistica)">>
                /\ ~a.vies_detectado =>
                    c = <<"Nao foi detectado vies significativo">>

\* C23 witness: a report whose pre-correction analysis found no bias although
\* the difference is significant, and which gives the no-bias message
C23_Witness ==
    /\ Relatado
    /\ ~resultado_reponderacao.analise_pre_ajuste.vies_detectado
    /\ resultado_reponderacao.analise_pre_ajuste.significancia_estatistica
    /\ resultado.analise_pre.conclusao = <<"Nao foi detectado vies significativo">>

\* C24 as claimed: when scores holds nobody of FEMININO or nobody of
\* MASCULINO, aplicar_reponderacao corrects nothing, whatever aplicar_correcao
\* is: both weights are 1.0, there is no post-correction analysis and
\* scores_ajustados equals scores.
C24_Claim ==
    (Reponderado /\ (IdsDe(FEMININO) = {} \/ IdsDe(MASCULINO) = {})) =>
        /\ resultado.peso_ajuste_feminino = One
        /\ resultado.peso_ajuste_masculino = One
        /\ resultado.analise_pos_ajuste = None
        /\ resultado.scores_ajustados = scores

\* every score handed in lies in [0, 10] and has at most 2 decimals
EntradaNoDominio ==
    \A id \in DOMAIN scores :
        /\ RLe(Zero, scores[id])
        /\ RLe(scores[id], Ten)
        /\ Round2(scores[id]) = scores[id]

\* |diferenca_percentual| before and after the correction
ViesPre == RAbs(resultado.analise_pre_ajuste.diferenca_percentual)
ViesPos == RAbs(resultado.analise_pos_ajuste[1].diferenca_percentual)

\* C25 as claimed: with every score in [0, 10] and of at most 2 decimals, an
\* applied correction never leaves |diferenca_percentual| larger than it was.
C25_Claim == (Corrigido /\ EntradaNoDominio) => RLe(ViesPos, ViesPre)

\* C25 amended: with every score in [0, 10] and of at most 2 decimals, an
\* applied correction that raises the women's scores (peso_ajuste_feminino
\* >= 1) never leaves |diferenca_percentual| larger than it was; one that
\* lowers them can, when rounding takes small scores down to 0.
C25_NaoAumentaAoElevar ==
    (Corrigido /\ EntradaNoDominio /\ RLe(One, resultado.peso_ajuste_feminino)) =>
        RLe(ViesPos, ViesPre)

\* C25 witness: a correction that raised the women's scores and left a
\* smaller, but not zero, relative difference
C25_Witness ==
    /\ Corrigido
    /\ EntradaNoDominio
    /\ RLt(One, resultado.peso_ajuste_feminino)
    /\ RLt(ViesPos, ViesPre)
    /\ RLt(Zero, ViesPos)

\* no woman's score times the women's weight is above the ceiling of 10.0
SemTeto ==
    \A id \in IdsDe(FEMININO) :
        RLe(RMul(scores[id], resultado.peso_ajuste_feminino), Ten)

\* |men's mean - women's mean after the correction|
DistanciaPosCorrecao ==
    RAbs(RSub(resultado.analise_pre_ajuste.estatisticas_masculino.media,
              resultado.analise_pos_ajuste[1].estatisticas_feminino.media))

\* C26 as claimed: after a correction in which the ceiling cut no score, the
\* women's mean is within 0.005 (the rounding to 2 decimals) of the men's mean.
C26_Claim == (Corrigido /\ SemTeto) => RLe(DistanciaPosCorrecao, Rat(5, 1000))

\* every score handed in lies in [0, 10]
EntradaEntreZeroEDez ==
    \A id \in DOMAIN scores : RLe(Zero, scores[id]) /\ RLe(scores[id], Ten)

\* C27: when every score handed in lies in [0, 10], every score of
\* scores_ajustados lies in [0, 10] too, whether the correction was applied
\* or the scores were passed through.
C27_AjustadosNoDominio ==
    (Reponderado /\ EntradaEntreZeroEDez) =>
        \A id \in DOMAIN resultado.scores_ajustados :
            /\ RLe(Zero, resultado.scores_ajustados[id])
            /\ RLe(resultado.scores_ajustados[id], Ten)

\* C27 witness: a correction in which a woman's score times the weight went
\* above 10.0 and came back as exactly 10.0
C27_Witness ==
    /\ Corrigido
    /\ EntradaEntreZeroEDez
    /\ \E id \in IdsDe(FEMININO) :
          /\ RLt(Ten, RMul(scores[id], resultado.peso_ajuste_feminino))
          /\ resultado.scores_ajustados[id] = Ten

\* every score handed in is 0 or more
EntradaNaoNegativa == \A id \in DOMAIN scores : RLe(Zero, scores[id])

\* C28: a correction of scores that are all 0 or more never inverts the order
\* of two women: the one with the lower (or equal) score keeps the lower (or
\* equal) adjusted score.
C28_OrdemMantida ==
    (Corrigido /\ EntradaNaoNegativa) =>
        \A id1 \in IdsDe(FEMININO) : \A id2 \in IdsDe(FEMININO) :
            RLe(scores[id1], scores[id2]) =>
                RLe(resultado.scores_ajustados[id1], resultado.scores_ajustados[id2])

\* C28 witness: a correction that changed the scores of two women with
\* different scores and kept them in order; the ceiling made no tie
C28_Witness ==
    /\ Corrigido
    /\ EntradaNaoNegativa
    /\ \E id1 \in IdsDe(FEMININO) : \E id2 \in IdsDe(FEMININO) :
          /\ RLt(scores[id1], scores[id2])
          /\ resultado.scores_ajustados[id1] # scores[id1]
          /\ resultado.scores_ajustados[id2] # scores[id2]
          /\ RLt(resultado.scores_ajustados[id1], resultado.scores_ajustados[id2])

Combinado == Feito("combinar_avaliacoes_em_scores")

\* C29 as claimed: whatever score dicts are given or left out and whatever
\* usar_ninebox is, combinar_avaliacoes_em_scores returns without raising,
\* and the peso of every criterion returned is between 0 and 1.
C29_Claim ==
    Combinado =>
        /\ resultado.excecao = "nenhuma"
        /\ \A i \in DOMAIN resultado.criterios :
              PesoValido(resultado.criterios[i].peso)

Ranqueado == Feito("calcular_ranking")

\* where a person stands in the order of insertion of avaliacoes
PosicaoNaEntrada(pessoa_id) ==
    CHOOSE i \in DOMAIN args.avaliacoes : args.avaliacoes[i][1] = pessoa_id

\* C30: calcular_ranking returns one ScorePessoa for each person of
\* avaliacoes, in order of score_final from the highest down, each with
\* posicao equal to its place in the list counted from 1; persons with equal
\* score_final stay in the order of avaliacoes; score_maximo and score_minimo
\* are the first and the last score_final, and 0 when there is nobody.
C30_RankingOrdenado ==
    Ranqueado =>
        LET s == resultado.scores
        IN  /\ Len(s) = Len(args.avaliacoes)
            /\ {s[i].pessoa_id : i \in DOMAIN s}
                   = {args.avaliacoes[i][1] : i \in DOMAIN args.avaliacoes}
            /\ \A i \in DOMAIN s : s[i].posicao = i
            /\ \A i \in DOMAIN s : \A j \in DOMAIN s :
                  i < j =>
                     /\ RLe(s[j].score_final, s[i].score_final)
                     /\ s[i].score_final = s[j].score_final =>
                           PosicaoNaEntrada(s[i].pessoa_id)
                               < PosicaoNaEntrada(s[j].pessoa_id)
            /\ resultado.metadados.score_maximo
                   = (IF s = <<>> THEN Zero ELSE s[1].score_final)
            /\ resultado.metadados.score_minimo
                   = (IF s = <<>> THEN Zero ELSE s[Len(s)].score_final)

\* C30 witness: three persons; the last one inserted has the highest score
\* and is ranked first, the other two have equal scores and follow in the
\* order of insertion
C30_Witness ==
    /\ Ranqueado
    /\ Len(resultado.scores) = 3
    /\ resultado.scores[1].pessoa_id = args.avaliacoes[3][1]
    /\ resultado.scores[2].pessoa_id = args.avaliacoes[1][1]
    /\ resultado.scores[3].pessoa_id = args.avaliacoes[2][1]
    /\ RLt(resultado.scores[2].score_final, resultado.scores[1].score_final)
    /\ resultado.scores[2].score_final = resultado.scores[3].score_final
    /\ resultado.scores[3].posicao = 3

=============================================================================
